---------------------------- MODULE Spec2Model ----------------------------
(***************************************************************************)
(* optcarrot-web: the page (src/src/index.ts, the presentation context)   *)
(* and the worker (src/src/optcarrot.worker.ts, the compute context).     *)
(*                                                                         *)
(* The module holds three state machines over one set of variables:       *)
(*   SpecChannel  the key-event channel between the key listeners of      *)
(*                play() and App.fetchKeyEvent                             *)
(*   SpecAudio    NESAudio.push against the audio clock                   *)
(*   SpecSession  the bootstrap of index.ts, App.init with its progress   *)
(*                events, the run loop and the frame / audio relays       *)
(*                                                                         *)
(* Strings that the program formats or parses are sequences of one-       *)
(* character strings, so that join and split are computed, not assumed.   *)
(***************************************************************************)
EXTENDS Integers, Sequences, FiniteSets, TLC

(***************************************************************************)
(* Bounds of the model.                                                    *)
(***************************************************************************)
\* Capacity of the key-event channel in two-byte records.  The page asks
\* for 1024 bytes (index.ts:153), that is 512 records; the model keeps the
\* structure and scales the number down.
ChannelRecords == 2
\* Number of keydown / keyup events of mapped keys the page handles.
MaxKeyEvents == 4
\* Largest value of the audio clock (AudioContext.currentTime), in sample
\* periods, and largest length of one audio segment, in samples.
MaxClock == 6
MaxSamples == 2
\* Number of audio segments relayed to the playAudio callback.
MaxAudioRelays == 4
\* Number of buffers tickVideo and tickAudio relay in one run, and number
\* of fetchKeyEvent calls of one run.
MaxBuffers == 3
MaxPolls == 1
\* Largest value of the audio clock within a session.
MaxSessionClock == 1

VARIABLES
    \* ---- key-event channel (shared memory) ----
    storage,          \* the bytes of the ring, index 0 .. StorageLen - 1
    readPtr,          \* read index, written by the consumer only
    writePtr,         \* write index, written by the producer only
    \* ---- producer side (page) ----
    prodPc,           \* "idle" | "write0" | "write1" | "commit"
    prodEvent,        \* arguments of the running push: <<code, pressed>>
    pushResult,       \* result of the last finished push: "none" | "true" | "false"
    pushed,           \* history: records whose push succeeded, in order
    rejected,         \* history: number of pushes that returned false
    keyEvents,        \* history: number of mapped key events handled
    lastKey,          \* <<code, pressed>> of the last key event a listener got
    \* ---- consumer side (worker) ----
    keyEventConsumer, \* "null" | "attached" (App.keyEventConsumer)
    consPc,           \* "idle" | "read" | "commit"
    consWr,           \* write index loaded by the running consume()
    consBytes,        \* the two bytes read by the running consume()
    fetchResult,      \* return value of the last finished fetchKeyEvent
    returned,         \* history: the non-empty results of fetchKeyEvent
    padCalls,         \* the calls BrowserInput.tick has made on pads
    \* ---- LoadProgress (page) ----
    uiMessage,        \* text shown in #loading-message, as a tuple of parts
    uiProgressHidden, \* progress.hidden
    uiMessageHidden,  \* message.hidden
    uiValue,          \* progress.value, in tenths
    \* ---- audio (page) ----
    audioEnabled,     \* the audioEnabled flag of play()
    nesAudio,         \* "null" | "created": the nesAudio variable of play()
    now,              \* context.currentTime, in sample periods
    scheduledTime,    \* NESAudio.scheduledTime, in sample periods
    segments,         \* history: one record per NESAudio.push
    dropped,          \* history: segments the callback returned on
    contexts,         \* history: number of NESAudio objects constructed
    \* ---- bootstrap of the page ----
    env,              \* what the bootstrap found: [serviceWorker, sab], each
                      \* "untested" | "yes" | "no"
    boot,             \* position of the module-level code of index.ts
    options,          \* the options argument handed to init
    \* ---- App.init and the run loop (worker) ----
    initPc,           \* position of App.init
    events,           \* history: ProgressInput values sent, in order
    inputPolls,       \* history: number of fetchKeyEvent calls of the run
    \* ---- relays ----
    owner,            \* owner[b]: which context owns buffer b
    videoPort,        \* messages in flight to the render callback
    audioPort,        \* messages in flight to the playAudio callback
    progressPort,     \* messages in flight to the progress callback
    rendered,         \* history: buffers handed to render, in order
    played            \* history: buffers handed to playAudio, in order

chanVars == <<storage, readPtr, writePtr, prodPc, prodEvent, pushResult,
              pushed, rejected, keyEvents, lastKey, keyEventConsumer, consPc, consWr,
              consBytes, fetchResult, returned, padCalls>>
uiVars == <<uiMessage, uiProgressHidden, uiMessageHidden, uiValue>>
audioVars == <<audioEnabled, nesAudio, now, scheduledTime, segments, dropped,
               contexts>>
bootVars == <<env, boot, options>>
workerVars == <<initPc, events, inputPolls>>
relayVars == <<owner, videoPort, audioPort, progressPort, rendered, played>>
sessVars == <<bootVars, workerVars, relayVars>>
vars == <<chanVars, uiVars, audioVars, sessVars>>

(***************************************************************************)
(* Strings as sequences of characters.                                     *)
(***************************************************************************)
Digit(n) ==
    CASE n = 0 -> "0" [] n = 1 -> "1" [] n = 2 -> "2" [] n = 3 -> "3"
      [] n = 4 -> "4" [] n = 5 -> "5" [] n = 6 -> "6" [] n = 7 -> "7"
      [] n = 8 -> "8" [] n = 9 -> "9"

\* Number.prototype.toString for a non-negative integer.
RECURSIVE NumStr(_)
NumStr(n) == IF n < 10 THEN <<Digit(n)>> ELSE NumStr(n \div 10) \o <<Digit(n % 10)>>

\* Boolean.prototype.toString.
BoolStr(b) == IF b THEN <<"t", "r", "u", "e">> ELSE <<"f", "a", "l", "s", "e">>

\* String#split(",") of Ruby, for a string without trailing separators.
RECURSIVE SplitComma(_)
SplitComma(s) ==
    IF \A i \in 1 .. Len(s) : s[i] # ","
    THEN <<s>>
    ELSE LET i == CHOOSE j \in 1 .. Len(s) :
                      s[j] = "," /\ \A l \in 1 .. j - 1 : s[l] # ","
         IN <<SubSeq(s, 1, i - 1)>> \o SplitComma(SubSeq(s, i + 1, Len(s)))

IsDigit(c) == c \in {"0", "1", "2", "3", "4", "5", "6", "7", "8", "9"}
DigitVal(c) == CHOOSE n \in 0 .. 9 : Digit(n) = c

\* String#to_i of Ruby: the value of the leading decimal digits, 0 if none.
RECURSIVE StrToIAcc(_, _)
StrToIAcc(s, acc) ==
    IF s = <<>> \/ ~IsDigit(Head(s)) THEN acc
    ELSE StrToIAcc(Tail(s), acc * 10 + DigitVal(Head(s)))

StrToI(s) == StrToIAcc(s, 0)

(***************************************************************************)
(* index.ts: padCodeFromCode.  The result is <<n>> for a pad code n and    *)
(* <<>> for the null of the default branch.                                *)
(***************************************************************************)
padCodeFromCode(code) ==
    CASE code = "KeyZ"       -> <<0>>
      [] code = "KeyX"       -> <<1>>
      [] code = "Enter"      -> <<2>>
      [] code = "Space"      -> <<3>>
      [] code = "ArrowUp"    -> <<4>>
      [] code = "ArrowDown"  -> <<5>>
      [] code = "ArrowLeft"  -> <<6>>
      [] code = "ArrowRight" -> <<7>>
      [] OTHER               -> <<>>

\* The KeyboardEvent.code values the model presses: two mapped keys and one
\* that padCodeFromCode does not know.
Keys == {"KeyZ", "ArrowRight", "KeyQ"}

(***************************************************************************)
(* The ring buffer under the channel (RingBuffer of ringbuf.js, built by   *)
(* index.ts:153-156 and optcarrot.worker.ts:132-134 over the same          *)
(* SharedArrayBuffer) and the two-byte record format of the channel.       *)
(***************************************************************************)
RecordBytes == 2
\* Usable bytes of the ring: the argument of getStorageForCapacity.
Capacity == RecordBytes * ChannelRecords
\* The ring keeps one slot free to tell full from empty.
StorageLen == Capacity + 1

AvailableRead(rd, wr) == (wr + StorageLen - rd) % StorageLen
AvailableWrite(rd, wr) == Capacity - AvailableRead(rd, wr)

\* Wire format: (code: 1 byte, pressed: 1 byte).
EncodeEvent(code, pressed) == <<code % 256, IF pressed THEN 1 ELSE 0>>
\* The consumer's value: [code, pressed] with pressed a boolean.
DecodeEvent(bytes) == <<bytes[1], bytes[2] = 1>>

\* The records committed and not yet popped, oldest first.
RECURSIVE QueueFrom(_, _, _)
QueueFrom(st, rd, wr) ==
    IF AvailableRead(rd, wr) < RecordBytes THEN <<>>
    ELSE <<DecodeEvent(<<st[rd], st[(rd + 1) % StorageLen]>>)>>
         \o QueueFrom(st, (rd + RecordBytes) % StorageLen, wr)

Queue == QueueFrom(storage, readPtr, writePtr)

(***************************************************************************)
(* Initial state of the channel: play() has allocated the storage and      *)
(* built the producer (index.ts:153-156); the listeners are registered     *)
(* (index.ts:171-184); the worker's App exists and App.init has not run.   *)
(***************************************************************************)
ChannelInit ==
    /\ storage = [i \in 0 .. StorageLen - 1 |-> 0]
    /\ readPtr = 0
    /\ writePtr = 0
    /\ prodPc = "idle"
    /\ prodEvent = <<0, FALSE>>
    /\ pushResult = "none"
    /\ pushed = <<>>
    /\ rejected = 0
    /\ keyEvents = 0
    /\ lastKey = <<>>
    /\ keyEventConsumer = "null"
    /\ consPc = "idle"
    /\ consWr = 0
    /\ consBytes = <<0, 0>>
    /\ fetchResult = <<>>
    /\ returned = <<>>
    /\ padCalls = <<>>

\* LoadProgress after its constructor (index.ts:232-235).
UiInit ==
    /\ uiMessage = <<>>
    /\ uiProgressHidden = FALSE
    /\ uiMessageHidden = FALSE
    /\ uiValue = 0

(***************************************************************************)
(* Producer.  KeyEventProducer.push(code, pressed) encodes one record and  *)
(* pushes it without blocking; a full channel rejects the record as a      *)
(* whole.  The first step loads the indices and decides; the bytes are     *)
(* written next, and the write index is published last.                    *)
(***************************************************************************)
ProducerPush(code, pressed) ==
    /\ prodPc = "idle"
    /\ keyEvents < MaxKeyEvents
    /\ keyEvents' = keyEvents + 1
    /\ IF AvailableWrite(readPtr, writePtr) < RecordBytes
       THEN /\ pushResult' = "false"
            /\ rejected' = rejected + 1
            /\ UNCHANGED <<prodPc, prodEvent>>
       ELSE /\ prodPc' = "write0"
            /\ prodEvent' = <<code, pressed>>
            /\ UNCHANGED <<pushResult, rejected>>
    /\ UNCHANGED <<storage, readPtr, writePtr, pushed, keyEventConsumer,
                   consPc, consWr, consBytes, fetchResult, returned, padCalls>>

\* Variant of the keydown listener that shows a rejected push to the user.
KeyDownReport(k) ==
    /\ padCodeFromCode(k) # <<>>
    /\ lastKey' = <<k, TRUE>>
    /\ ProducerPush(padCodeFromCode(k)[1], TRUE)
    /\ IF rejected' # rejected
       THEN /\ uiMessage' = <<"Key event dropped">>
            /\ uiProgressHidden' = TRUE
            /\ UNCHANGED <<uiMessageHidden, uiValue>>
       ELSE UNCHANGED uiVars
    /\ UNCHANGED <<audioVars, sessVars>>

\* index.ts:171-177, the keydown listener.
KeyDown(k) ==
    /\ padCodeFromCode(k) # <<>>
    /\ lastKey' = <<k, TRUE>>
    /\ ProducerPush(padCodeFromCode(k)[1], TRUE)
    /\ UNCHANGED <<uiVars, audioVars, sessVars>>

\* Variant of the keyup listener that pushes the event as pressed.
KeyUpPressed(k) ==
    /\ padCodeFromCode(k) # <<>>
    /\ lastKey' = <<k, FALSE>>
    /\ ProducerPush(padCodeFromCode(k)[1], TRUE)
    /\ UNCHANGED <<uiVars, audioVars, sessVars>>

\* index.ts:179-184, the keyup listener.
KeyUp(k) ==
    /\ padCodeFromCode(k) # <<>>
    /\ lastKey' = <<k, FALSE>>
    /\ ProducerPush(padCodeFromCode(k)[1], FALSE)
    /\ UNCHANGED <<uiVars, audioVars, sessVars>>

\* A keydown or keyup of a key padCodeFromCode does not know: both
\* listeners return without a push (index.ts:173, 181).
KeyIgnored(k) ==
    /\ prodPc = "idle"
    /\ padCodeFromCode(k) = <<>>
    /\ \E pressed \in BOOLEAN : lastKey' = <<k, pressed>>
    /\ UNCHANGED <<storage, readPtr, writePtr, prodPc, prodEvent, pushResult,
                   pushed, rejected, keyEvents, keyEventConsumer, consPc,
                   consWr, consBytes, fetchResult, returned, padCalls>>
    /\ UNCHANGED <<uiVars, audioVars, sessVars>>

PushWrite0 ==
    /\ prodPc = "write0"
    /\ storage' = [storage EXCEPT
                     ![writePtr] = EncodeEvent(prodEvent[1], prodEvent[2])[1]]
    /\ prodPc' = "write1"
    /\ UNCHANGED <<readPtr, writePtr, prodEvent, pushResult, pushed, rejected,
                   keyEvents, lastKey, keyEventConsumer, consPc, consWr, consBytes,
                   fetchResult, returned, padCalls>>
    /\ UNCHANGED <<uiVars, audioVars, sessVars>>

PushWrite1 ==
    /\ prodPc = "write1"
    /\ storage' = [storage EXCEPT
                     ![(writePtr + 1) % StorageLen] =
                         EncodeEvent(prodEvent[1], prodEvent[2])[2]]
    /\ prodPc' = "commit"
    /\ UNCHANGED <<readPtr, writePtr, prodEvent, pushResult, pushed, rejected,
                   keyEvents, lastKey, keyEventConsumer, consPc, consWr, consBytes,
                   fetchResult, returned, padCalls>>
    /\ UNCHANGED <<uiVars, audioVars, sessVars>>

PushCommit ==
    /\ prodPc = "commit"
    /\ writePtr' = (writePtr + RecordBytes) % StorageLen
    /\ pushed' = Append(pushed, prodEvent)
    /\ pushResult' = "true"
    /\ prodPc' = "idle"
    /\ UNCHANGED <<storage, readPtr, prodEvent, rejected, keyEvents, lastKey,
                   keyEventConsumer, consPc, consWr, consBytes, fetchResult,
                   returned, padCalls>>
    /\ UNCHANGED <<uiVars, audioVars, sessVars>>

(***************************************************************************)
(* BrowserInput.tick (optcarrot.worker.ts:72-82) reads the string: "" is   *)
(* no event; otherwise the fields around "," are the code (to_i) and the   *)
(* pressed flag (the text "true").  The result is <<>> or <<code, down>>.  *)
(***************************************************************************)
TickEvent(event) ==
    IF event = <<>> THEN <<>>
    ELSE LET f == SplitComma(event)
         IN <<StrToI(f[1]), Len(f) >= 2 /\ f[2] = <<"t", "r", "u", "e">>>>

\* Variant of BrowserInput.tick without `return if event == ""`: the empty
\* string splits into no field, nil.to_i is 0 and pressed is nil.
BrowserInputTickNoReturn(event) ==
    IF event = <<>> THEN << <<"keyup", 0, 0>> >>
    ELSE << <<IF TickEvent(event)[2] THEN "keydown" ELSE "keyup", 0,
              TickEvent(event)[1]>> >>

\* BrowserInput.tick (optcarrot.worker.ts:72-82) on the string `event`
\* that fetchKeyEvent returned: the calls it makes on pads, each
\* <<method, player, code>>.
BrowserInputTick(event) ==
    IF TickEvent(event) = <<>> THEN <<>>
    ELSE << <<IF TickEvent(event)[2] THEN "keydown" ELSE "keyup", 0,
              TickEvent(event)[1]>> >>

(***************************************************************************)
(* Consumer.  App.init builds the KeyEventConsumer over the buffer it was  *)
(* handed (optcarrot.worker.ts:130-134, InitStart below); fetchKeyEvent    *)
(* asks it for one record and formats it (optcarrot.worker.ts:219-223).    *)
(***************************************************************************)
\* Variant of fetchKeyEvent that tests the code instead of the event
\* (!event[0]), so that pad code 0 reads as no event.
fetchKeyEventResultFalsy(event) ==
    IF event = <<>> \/ event[1] = 0 THEN <<>>
    ELSE NumStr(event[1]) \o <<",">> \o BoolStr(event[2])

\* optcarrot.worker.ts:221-222: "" for no event, else event.join(",").
\* event is <<>> (no event) or <<code, pressed>>.
fetchKeyEventResult(event) ==
    IF event = <<>> THEN <<>>
    ELSE NumStr(event[1]) \o <<",">> \o BoolStr(event[2])

\* BrowserInput.tick calls fetchKeyEvent; first step: consume() loads the
\* write index; an empty channel ends the call at once with "", which the
\* tick then reads.
FetchBeginCall ==
    /\ keyEventConsumer = "attached"
    /\ consPc = "idle"
    /\ IF AvailableRead(readPtr, writePtr) < RecordBytes
       THEN /\ fetchResult' = fetchKeyEventResult(<<>>)
            /\ padCalls' = padCalls \o BrowserInputTick(fetchResult')
            /\ UNCHANGED <<consPc, consWr>>
       ELSE /\ consPc' = "read"
            /\ consWr' = writePtr
            /\ UNCHANGED <<fetchResult, padCalls>>
    /\ UNCHANGED <<storage, readPtr, writePtr, prodPc, prodEvent, pushResult,
                   pushed, rejected, keyEvents, lastKey, keyEventConsumer, consBytes,
                   returned>>

FetchBegin ==
    /\ FetchBeginCall
    /\ UNCHANGED <<uiVars, audioVars, sessVars>>

\* consume() copies the record out of the ring.
FetchRead ==
    /\ consPc = "read"
    /\ consBytes' = <<storage[readPtr], storage[(readPtr + 1) % StorageLen]>>
    /\ consPc' = "commit"
    /\ UNCHANGED <<storage, readPtr, writePtr, prodPc, prodEvent, pushResult,
                   pushed, rejected, keyEvents, lastKey, keyEventConsumer, consWr,
                   fetchResult, returned, padCalls>>
    /\ UNCHANGED <<uiVars, audioVars, sessVars>>

\* Variant of fetchKeyEvent that calls consume() a second time, releasing
\* the next record as well when one is there.
FetchCommitTwice ==
    /\ consPc = "commit"
    /\ readPtr' = IF AvailableRead(readPtr, writePtr) >= 2 * RecordBytes
                  THEN (readPtr + 2 * RecordBytes) % StorageLen
                  ELSE (readPtr + RecordBytes) % StorageLen
    /\ fetchResult' = fetchKeyEventResult(DecodeEvent(consBytes))
    /\ returned' = Append(returned, fetchKeyEventResult(DecodeEvent(consBytes)))
    /\ padCalls' = padCalls \o BrowserInputTick(fetchResult')
    /\ consPc' = "idle"
    /\ UNCHANGED <<storage, writePtr, prodPc, prodEvent, pushResult, pushed,
                   rejected, keyEvents, lastKey, keyEventConsumer, consWr, consBytes>>
    /\ UNCHANGED <<uiVars, audioVars, sessVars>>

\* consume() releases the record's bytes and returns; fetchKeyEvent
\* formats the record and returns the string, which the tick reads.
FetchCommit ==
    /\ consPc = "commit"
    /\ readPtr' = (readPtr + RecordBytes) % StorageLen
    /\ fetchResult' = fetchKeyEventResult(DecodeEvent(consBytes))
    /\ returned' = Append(returned, fetchKeyEventResult(DecodeEvent(consBytes)))
    /\ padCalls' = padCalls \o BrowserInputTick(fetchResult')
    /\ consPc' = "idle"
    /\ UNCHANGED <<storage, writePtr, prodPc, prodEvent, pushResult, pushed,
                   rejected, keyEvents, lastKey, keyEventConsumer, consWr, consBytes>>
    /\ UNCHANGED <<uiVars, audioVars, sessVars>>


(***************************************************************************)
(* Audio.  Time is counted in sample periods of the AudioContext           *)
(* (sampleRate 11050, index.ts:33), so that the duration of a buffer of n  *)
(* samples, n / sampleRate seconds, is n units.                            *)
(***************************************************************************)
\* AudioBuffer.duration of the buffer built at index.ts:38-42.
Duration(length) == length

\* Variant of NESAudio.push that compares with <= at index.ts:51.
NESAudioPushLe(currentTime, scheduled, length) ==
    IF currentTime <= scheduled
    THEN [start |-> scheduled,
          scheduledTime |-> scheduled + Duration(length),
          warned |-> FALSE]
    ELSE [start |-> currentTime,
          scheduledTime |-> currentTime + Duration(length),
          warned |-> TRUE]

\* Variant of NESAudio.push that starts an underrun segment at the stale
\* scheduledTime (index.ts:59).
NESAudioPushStale(currentTime, scheduled, length) ==
    IF currentTime < scheduled
    THEN [start |-> scheduled,
          scheduledTime |-> scheduled + Duration(length),
          warned |-> FALSE]
    ELSE [start |-> scheduled,
          scheduledTime |-> currentTime + Duration(length),
          warned |-> TRUE]

\* Variant of NESAudio.push whose steady branch sets scheduledTime from
\* the clock, as the underrun branch does.
NESAudioPushReset(currentTime, scheduled, length) ==
    IF currentTime < scheduled
    THEN [start |-> scheduled,
          scheduledTime |-> currentTime + Duration(length),
          warned |-> FALSE]
    ELSE [start |-> currentTime,
          scheduledTime |-> currentTime + Duration(length),
          warned |-> TRUE]

\* Variant of NESAudio.push whose underrun branch leaves the duration out
\* of the new scheduledTime.
NESAudioPushNoDuration(currentTime, scheduled, length) ==
    IF currentTime < scheduled
    THEN [start |-> scheduled,
          scheduledTime |-> scheduled + Duration(length),
          warned |-> FALSE]
    ELSE [start |-> currentTime,
          scheduledTime |-> currentTime,
          warned |-> TRUE]

\* NESAudio.push (index.ts:37-62) for an input of `length` samples, read
\* at audio clock `currentTime` with this.scheduledTime = `scheduled`:
\* the time given to bufferSrc.start, the new scheduledTime, and whether
\* console.warn("Audio buffer underrun :(") was called.
NESAudioPush(currentTime, scheduled, length) ==
    IF currentTime < scheduled
    THEN [start |-> scheduled,
          scheduledTime |-> scheduled + Duration(length),
          warned |-> FALSE]
    ELSE [start |-> currentTime,
          scheduledTime |-> currentTime + Duration(length),
          warned |-> TRUE]

\* play() up to index.ts:166: no NESAudio yet; the flag is the state of
\* the #audio-enabled checkbox.
AudioInit ==
    /\ audioEnabled \in BOOLEAN
    /\ nesAudio = "null"
    /\ now = 0
    /\ scheduledTime = 0
    /\ segments = <<>>
    /\ dropped = 0
    /\ contexts = 0

\* index.ts:168-170: a click toggles the checkbox and the handler copies
\* its state.
AudioCheckboxClick ==
    /\ audioEnabled' = ~audioEnabled
    /\ UNCHANGED <<nesAudio, now, scheduledTime, segments, dropped, contexts>>
    /\ UNCHANGED <<chanVars, uiVars, sessVars>>

\* The audio clock of a created AudioContext advances on its own.
ClockAdvance ==
    /\ nesAudio = "created"
    /\ now < MaxClock
    /\ now' = now + 1
    /\ UNCHANGED <<audioEnabled, nesAudio, scheduledTime, segments, dropped,
                   contexts>>
    /\ UNCHANGED <<chanVars, uiVars, sessVars>>

\* Variant of the playAudio callback that makes the NESAudio before it
\* tests the flag.
playAudioCreateFirst(length) ==
    /\ nesAudio' = "created"
    /\ contexts' = IF nesAudio = "null" THEN contexts + 1 ELSE contexts
    /\ IF ~audioEnabled
       THEN /\ dropped' = dropped + 1
            /\ scheduledTime' = IF nesAudio = "null" THEN 0 ELSE scheduledTime
            /\ UNCHANGED segments
       ELSE LET sched == IF nesAudio = "null" THEN 0 ELSE scheduledTime
                r == NESAudioPush(now, sched, length)
            IN /\ scheduledTime' = r.scheduledTime
               /\ segments' = Append(segments,
                      [time |-> now, length |-> length, before |-> sched,
                       start |-> r.start, after |-> r.scheduledTime,
                       warned |-> r.warned])
               /\ UNCHANGED dropped
    /\ UNCHANGED <<audioEnabled, now>>

\* index.ts:201-207, the playAudio callback, for a segment of `length`
\* samples.  The constructor of NESAudio (index.ts:32-35) makes a new
\* AudioContext, whose clock starts at 0, and sets scheduledTime to 0.
playAudio(length) ==
    /\ IF ~audioEnabled
       THEN /\ dropped' = dropped + 1
            /\ UNCHANGED <<nesAudio, scheduledTime, segments, contexts>>
       ELSE LET sched == IF nesAudio = "null" THEN 0 ELSE scheduledTime
                r == NESAudioPush(now, sched, length)
            IN /\ nesAudio' = "created"
               /\ contexts' = IF nesAudio = "null" THEN contexts + 1
                              ELSE contexts
               /\ scheduledTime' = r.scheduledTime
               /\ segments' = Append(segments,
                      [time |-> now, length |-> length, before |-> sched,
                       start |-> r.start, after |-> r.scheduledTime,
                       warned |-> r.warned])
               /\ UNCHANGED dropped
    /\ UNCHANGED <<audioEnabled, now>>

\* A segment of `length` samples reaches the playAudio callback.
PlayAudio(length) ==
    /\ Len(segments) + dropped < MaxAudioRelays
    /\ playAudio(length)
    /\ UNCHANGED <<chanVars, uiVars, sessVars>>


(***************************************************************************)
(* LoadProgress (index.ts:80-106).  A message is a tuple of its parts.     *)
(***************************************************************************)
uiLog(message) ==
    /\ uiMessage' = message
    /\ UNCHANGED <<uiProgressHidden, uiMessageHidden, uiValue>>

uiError(message) ==
    /\ uiMessage' = message
    /\ uiProgressHidden' = TRUE
    /\ UNCHANGED <<uiMessageHidden, uiValue>>

uiSetProgress(value) ==
    /\ uiValue' = value
    /\ UNCHANGED <<uiMessage, uiProgressHidden, uiMessageHidden>>

uiHide ==
    /\ uiProgressHidden' = TRUE
    /\ uiMessageHidden' = TRUE
    /\ UNCHANGED <<uiMessage, uiValue>>

(***************************************************************************)
(* Startup parameters.  A URL is the result of searchParams.get for the    *)
(* three names: <<>> for null, <<v>> for the value v.  The value handed    *)
(* to init carries its JavaScript shape in `kind`: deriveOptions returns   *)
(* an object literal; OptcarrotWorkerPort.init declares options: string[]. *)
(***************************************************************************)
Urls ==
    [opt : {<<>>, <<"true">>, <<"false">>},
     headless : {<<>>, <<"true">>},
     rom : {<<>>, <<"other.nes">>}]

\* index.ts:131-140.
deriveOptions(url) ==
    [kind |-> "object",
     opt |-> IF url.opt = <<>> THEN TRUE ELSE url.opt = <<"true">>,
     headless |-> IF url.headless = <<>> THEN FALSE ELSE url.headless = <<"true">>,
     rom |-> IF url.rom = <<>> THEN "Lan_Master.nes" ELSE url.rom[1]]

\* An options value of the declared type string[]
\* (optcarrot.worker.ts:22-23, 124, 231).
PortOptions == {[kind |-> "array", items |-> <<"Lan_Master.nes">>]}

\* Whether options.map (optcarrot.worker.ts:184) is a function.
HasMap(o) == o.kind = "array"

(***************************************************************************)
(* ProgressInput (optcarrot.worker.ts:9-20).  Progress values are in       *)
(* tenths.  `by` names the function that made the call.                    *)
(***************************************************************************)
MessageEv(text) ==
    [kind |-> "message", value |-> 0, text |-> text, cause |-> "", by |-> "App.init"]
ProgressEv(value) ==
    [kind |-> "progress", value |-> value, text |-> "", cause |-> "", by |-> "App.init"]
DoneEv ==
    [kind |-> "done", value |-> 0, text |-> "", cause |-> "", by |-> "App.init"]
\* "Failed to initialize Optcarrot: " + e.message, e being the error of
\* the step named by `cause`.
ErrorEv(cause) ==
    [kind |-> "error", value |-> 0, text |-> "Failed to initialize Optcarrot: ",
     cause |-> cause, by |-> "expose.init"]

\* A call of the progress proxy: the value goes to the page as a message.
Send(evs) ==
    /\ events' = events \o evs
    /\ progressPort' = progressPort \o evs

(***************************************************************************)
(* State of a page on which play() has just returned (index.ts:149-230)    *)
(* with no URL parameter: the init message is on its way to the worker.    *)
(***************************************************************************)
NoParams == [opt |-> <<>>, headless |-> <<>>, rom |-> <<>>]

RelayInit ==
    /\ owner = <<>>
    /\ videoPort = <<>>
    /\ audioPort = <<>>
    /\ progressPort = <<>>
    /\ rendered = <<>>
    /\ played = <<>>

SessionPlayed ==
    /\ env = [serviceWorker |-> "yes", sab |-> "yes"]
    /\ boot = "played"
    /\ options = deriveOptions(NoParams)
    /\ initPc = "called"
    /\ events = <<>>
    /\ inputPolls = 0
    /\ RelayInit

\* State of a page whose module-level code is about to run
\* (index.ts:232-237); the worker's App is constructed
\* (optcarrot.worker.ts:225-227).
SessionInit ==
    /\ env = [serviceWorker |-> "untested", sab |-> "untested"]
    /\ boot = "start"
    /\ options = deriveOptions(NoParams)
    /\ initPc = "idle"
    /\ events = <<>>
    /\ inputPolls = 0
    /\ RelayInit

(***************************************************************************)
(* Bootstrap (index.ts:237-262).  Each test of the environment ("service-  *)
(* Worker" in navigator, typeof SharedArrayBuffer) can go either way; env  *)
(* records how it went.                                                    *)
(***************************************************************************)
\* index.ts:260-262.
BootNoServiceWorker ==
    /\ boot = "start"
    /\ env' = [env EXCEPT !.serviceWorker = "no"]
    /\ uiError(<<"No Service Worker support">>)
    /\ boot' = "noServiceWorker"
    /\ UNCHANGED <<options, workerVars, relayVars, chanVars, audioVars>>

\* index.ts:237-240: register() is called.
BootRegister ==
    /\ boot = "start"
    /\ env' = [env EXCEPT !.serviceWorker = "yes"]
    /\ boot' = "registering"
    /\ UNCHANGED <<options, workerVars, relayVars, chanVars, audioVars, uiVars>>

\* index.ts:256-258: the registration is rejected; the handler logs to
\* the console.
RegisterRejected ==
    /\ boot = "registering"
    /\ boot' = "registerRejected"
    /\ UNCHANGED <<env, options, workerVars, relayVars, chanVars, audioVars, uiVars>>

\* index.ts:244-245: active registration that does not control the page.
RegisteredReload ==
    /\ boot = "registering"
    /\ boot' = "reloading"
    /\ UNCHANGED <<env, options, workerVars, relayVars, chanVars, audioVars, uiVars>>

\* index.ts:247-248 with play (index.ts:149-230): the page logs
\* "Initializing Optcarrot...", derives the options and calls init.
RegisteredPlay(url) ==
    /\ boot = "registering"
    /\ env' = [env EXCEPT !.sab = "yes"]
    /\ uiLog(<<"Initializing Optcarrot...">>)
    /\ options' = deriveOptions(url)
    /\ initPc' = "called"
    /\ boot' = "played"
    /\ UNCHANGED <<events, inputPolls, relayVars, chanVars, audioVars>>

\* index.ts:249-253.
RegisteredNoSab ==
    /\ boot = "registering"
    /\ env' = [env EXCEPT !.sab = "no"]
    /\ uiError(<<"Your browser does not support SharedArrayBuffer. Please use a modern browser like Chrome or Firefox.">>)
    /\ boot' = "noSharedArrayBuffer"
    /\ UNCHANGED <<options, workerVars, relayVars, chanVars, audioVars>>

\* A client of the exposed port calls init with options of the declared
\* type string[] (optcarrot.worker.ts:21-29, 229-236).
PortInit(o) ==
    /\ boot = "start"
    /\ initPc = "idle"
    /\ options' = o
    /\ initPc' = "called"
    /\ boot' = "port"
    /\ UNCHANGED <<env, events, inputPolls, relayVars, chanVars, audioVars, uiVars>>

(***************************************************************************)
(* The exposed init and App.init (optcarrot.worker.ts:123-194, 229-245).   *)
(* App.init is an async function: an exception or a rejected await rejects *)
(* its promise, and the catch handler of the exposed init sends the error. *)
(***************************************************************************)
\* Variant in which both the .catch handler and the catch block report.
ThrowTwice(cause) ==
    /\ initPc' = "failed"
    /\ Send(<<ErrorEv(cause), ErrorEv(cause)>>)

\* Variant in which the rejection of App.init's promise is not handled:
\* no .catch, nothing is sent.
ThrowSilent(cause) ==
    /\ initPc' = "failed"
    /\ UNCHANGED <<events, progressPort>>

\* optcarrot.worker.ts:237-243: the step named `cause` threw or rejected.
Throw(cause) ==
    /\ initPc' = "failed"
    /\ Send(<<ErrorEv(cause)>>)

\* optcarrot.worker.ts:130-139: the callbacks are stored, the consumer is
\* built over the shared buffer, "Downloading..." and progress 0 are sent
\* and the fetch is started.
InitStart ==
    /\ initPc = "called"
    /\ keyEventConsumer' = "attached"
    /\ Send(<<MessageEv("Downloading..."), ProgressEv(0)>>)
    /\ initPc' = "fetch"
    /\ UNCHANGED <<storage, readPtr, writePtr, prodPc, prodEvent, pushResult,
                   pushed, rejected, keyEvents, lastKey, consPc, consWr, consBytes,
                   fetchResult, returned, padCalls>>
    /\ UNCHANGED <<inputPolls, owner, videoPort, audioPort, rendered, played>>
    /\ UNCHANGED <<bootVars, audioVars, uiVars>>

\* optcarrot.worker.ts:139-140: the fetch settles; response.arrayBuffer().
FetchSettled ==
    /\ initPc = "fetch"
    /\ \/ /\ initPc' = "arrayBuffer"
          /\ UNCHANGED <<events, progressPort>>
       \/ Throw("fetch")
    /\ UNCHANGED <<inputPolls, owner, videoPort, audioPort, rendered, played>>
    /\ UNCHANGED <<bootVars, chanVars, audioVars, uiVars>>

\* optcarrot.worker.ts:140-151: the body is read; progress 0.2 and
\* "Instantiating Optcarrot..." are sent; WebAssembly.instantiate starts.
ArrayBufferSettled ==
    /\ initPc = "arrayBuffer"
    /\ \/ /\ initPc' = "instantiate"
          /\ Send(<<ProgressEv(2), MessageEv("Instantiating Optcarrot...")>>)
       \/ Throw("arrayBuffer")
    /\ UNCHANGED <<inputPolls, owner, videoPort, audioPort, rendered, played>>
    /\ UNCHANGED <<bootVars, chanVars, audioVars, uiVars>>

\* optcarrot.worker.ts:151-152: the module is instantiated; vm.setInstance.
InstantiateSettled ==
    /\ initPc = "instantiate"
    /\ \/ /\ initPc' = "setInstance"
          /\ UNCHANGED <<events, progressPort>>
       \/ Throw("WebAssembly.instantiate")
    /\ UNCHANGED <<inputPolls, owner, videoPort, audioPort, rendered, played>>
    /\ UNCHANGED <<bootVars, chanVars, audioVars, uiVars>>

\* optcarrot.worker.ts:152-153: setInstance settles; progress 0.3.
SetInstanceSettled ==
    /\ initPc = "setInstance"
    /\ \/ /\ initPc' = "wasiInit"
          /\ Send(<<ProgressEv(3)>>)
       \/ Throw("vm.setInstance")
    /\ UNCHANGED <<inputPolls, owner, videoPort, audioPort, rendered, played>>
    /\ UNCHANGED <<bootVars, chanVars, audioVars, uiVars>>

\* optcarrot.worker.ts:156-161: setMemory, _initialize, vm.initialize;
\* progress 0.6.
WasiInitialize ==
    /\ initPc = "wasiInit"
    /\ \/ /\ initPc' = "require"
          /\ Send(<<ProgressEv(6)>>)
       \/ Throw("vm.initialize")
    /\ UNCHANGED <<inputPolls, owner, videoPort, audioPort, rendered, played>>
    /\ UNCHANGED <<bootVars, chanVars, audioVars, uiVars>>

\* optcarrot.worker.ts:163-171: the require of optcarrot; progress 0.8.
RequireOptcarrot ==
    /\ initPc = "require"
    /\ \/ /\ initPc' = "nesNew"
          /\ Send(<<ProgressEv(8)>>)
       \/ Throw("require")
    /\ UNCHANGED <<inputPolls, owner, videoPort, audioPort, rendered, played>>
    /\ UNCHANGED <<bootVars, chanVars, audioVars, uiVars>>

\* Variant that sends done before progress 1.
NesNewDoneFirst ==
    /\ initPc = "nesNew"
    /\ \/ /\ HasMap(options)
          /\ initPc' = "run"
          /\ Send(<<DoneEv, ProgressEv(10)>>)
       \/ /\ ~HasMap(options)
          /\ Throw("options.map is not a function")
       \/ /\ HasMap(options)
          /\ Throw("Optcarrot::NES.new")
    /\ UNCHANGED <<inputPolls, owner, videoPort, audioPort, rendered, played>>
    /\ UNCHANGED <<bootVars, chanVars, audioVars, uiVars>>

\* optcarrot.worker.ts:172-193: the script is built with options.map, which
\* throws a TypeError when options has no map; the drivers are installed
\* and $nes is made; progress 1 and done are sent; $nes.run is entered.
NesNew ==
    /\ initPc = "nesNew"
    /\ \/ /\ HasMap(options)
          /\ initPc' = "run"
          /\ Send(<<ProgressEv(10), DoneEv>>)
       \/ /\ ~HasMap(options)
          /\ Throw("options.map is not a function")
       \/ /\ HasMap(options)
          /\ Throw("Optcarrot::NES.new")
    /\ UNCHANGED <<inputPolls, owner, videoPort, audioPort, rendered, played>>
    /\ UNCHANGED <<bootVars, chanVars, audioVars, uiVars>>

(***************************************************************************)
(* The run ($nes.run, optcarrot.worker.ts:193).  The engine calls the      *)
(* drivers' tick methods (optcarrot.worker.ts:31-85), which call           *)
(* tickVideo, tickAudio and fetchKeyEvent; it may also raise or return.    *)
(* A buffer is named by its index in `owner`.                              *)
(***************************************************************************)
\* Variant of tickVideo that passes bytes without the transfer list: the
\* message carries a copy and the worker keeps its buffer.
TickVideoNoTransfer ==
    /\ initPc = "run"
    /\ Len(owner) + 1 < MaxBuffers
    /\ owner' = owner \o <<"compute", "transit">>
    /\ videoPort' = Append(videoPort, Len(owner) + 2)
    /\ UNCHANGED <<audioPort, progressPort, rendered, played>>
    /\ UNCHANGED <<bootVars, workerVars, chanVars, audioVars, uiVars>>

\* Variant in which a frame is already relayed while Optcarrot::NES.new
\* runs, before progress 1 and done.
TickVideoEarly ==
    /\ initPc \in {"nesNew", "run"}
    /\ Len(owner) < MaxBuffers
    /\ owner' = Append(owner, "transit")
    /\ videoPort' = Append(videoPort, Len(owner) + 1)
    /\ UNCHANGED <<audioPort, progressPort, rendered, played>>
    /\ UNCHANGED <<bootVars, workerVars, chanVars, audioVars, uiVars>>

\* optcarrot.worker.ts:196-199 with videoBytes (206-210): a buffer is read
\* from the file system and posted to the render proxy with the buffer in
\* the transfer list; the call returns without awaiting the proxy's promise.
TickVideo ==
    /\ initPc = "run"
    /\ Len(owner) < MaxBuffers
    /\ owner' = Append(owner, "transit")
    /\ videoPort' = Append(videoPort, Len(owner) + 1)
    /\ UNCHANGED <<audioPort, progressPort, rendered, played>>
    /\ UNCHANGED <<bootVars, workerVars, chanVars, audioVars, uiVars>>

\* optcarrot.worker.ts:201-204 with audioBytes (212-217), for a file of
\* `length` samples.
TickAudio(length) ==
    /\ initPc = "run"
    /\ Len(owner) < MaxBuffers
    /\ owner' = Append(owner, "transit")
    /\ audioPort' = Append(audioPort, [buffer |-> Len(owner) + 1, length |-> length])
    /\ UNCHANGED <<videoPort, progressPort, rendered, played>>
    /\ UNCHANGED <<bootVars, workerVars, chanVars, audioVars, uiVars>>

\* BrowserInput.tick (optcarrot.worker.ts:72-74) calls fetchKeyEvent.
TickInput ==
    /\ initPc = "run"
    /\ inputPolls < MaxPolls
    /\ FetchBeginCall
    /\ inputPolls' = inputPolls + 1
    /\ UNCHANGED <<initPc, events>>
    /\ UNCHANGED <<bootVars, relayVars, audioVars, uiVars>>

\* vm.eval(`$nes.run`) throws: App.init's promise is rejected.
RunThrows ==
    /\ initPc = "run"
    /\ Throw("$nes.run")
    /\ UNCHANGED <<inputPolls, owner, videoPort, audioPort, rendered, played>>
    /\ UNCHANGED <<bootVars, chanVars, audioVars, uiVars>>

\* vm.eval(`$nes.run`) returns: App.init's promise is fulfilled.
RunReturns ==
    /\ initPc = "run"
    /\ initPc' = "returned"
    /\ UNCHANGED <<events, inputPolls>>
    /\ UNCHANGED <<bootVars, relayVars, chanVars, audioVars, uiVars>>

(***************************************************************************)
(* The page's callbacks (index.ts:187-227), each run when its message      *)
(* arrives.                                                                *)
(***************************************************************************)
\* Variant of render's delivery that takes the newest frame in flight.
DeliverVideoNewest ==
    /\ videoPort # <<>>
    /\ owner' = [owner EXCEPT ![videoPort[Len(videoPort)]] = "presentation"]
    /\ rendered' = Append(rendered, videoPort[Len(videoPort)])
    /\ videoPort' = SubSeq(videoPort, 1, Len(videoPort) - 1)
    /\ UNCHANGED <<audioPort, progressPort, played>>
    /\ UNCHANGED <<bootVars, workerVars, chanVars, audioVars, uiVars>>
\* index.ts:187-194: render receives the oldest frame in flight.
DeliverVideo ==
    /\ videoPort # <<>>
    /\ owner' = [owner EXCEPT ![Head(videoPort)] = "presentation"]
    /\ rendered' = Append(rendered, Head(videoPort))
    /\ videoPort' = Tail(videoPort)
    /\ UNCHANGED <<audioPort, progressPort, played>>
    /\ UNCHANGED <<bootVars, workerVars, chanVars, audioVars, uiVars>>

\* index.ts:201-207: playAudio receives the oldest segment in flight.
DeliverAudio ==
    /\ audioPort # <<>>
    /\ owner' = [owner EXCEPT ![Head(audioPort).buffer] = "presentation"]
    /\ played' = Append(played, Head(audioPort).buffer)
    /\ audioPort' = Tail(audioPort)
    /\ playAudio(Head(audioPort).length)
    /\ UNCHANGED <<videoPort, progressPort, rendered>>
    /\ UNCHANGED <<bootVars, workerVars, chanVars, uiVars>>

\* index.ts:208-227: the progress callback receives the oldest event.
DeliverProgress ==
    /\ progressPort # <<>>
    /\ progressPort' = Tail(progressPort)
    /\ LET input == Head(progressPort)
       IN CASE input.kind = "error" -> uiError(<<input.text, input.cause>>)
            [] input.kind = "message" -> uiLog(<<input.text>>)
            [] input.kind = "done" -> uiHide
            [] input.kind = "progress" -> uiSetProgress(input.value)
    /\ UNCHANGED <<owner, videoPort, audioPort, rendered, played>>
    /\ UNCHANGED <<bootVars, workerVars, chanVars, audioVars>>

(***************************************************************************)
(* The key-event channel: the listeners of the page against fetchKeyEvent. *)
(* The worker's part starts with InitStart; fetchKeyEvent is taken as      *)
(* callable from then on.                                                  *)
(***************************************************************************)
InitChannel == ChannelInit /\ UiInit /\ AudioInit /\ SessionPlayed

NextChannel ==
    \/ \E k \in Keys : KeyDown(k)
    \/ \E k \in Keys : KeyUp(k)
    \/ \E k \in Keys : KeyIgnored(k)
    \/ PushWrite0
    \/ PushWrite1
    \/ PushCommit
    \/ InitStart
    \/ FetchBegin
    \/ FetchRead
    \/ FetchCommit

SpecChannel == InitChannel /\ [][NextChannel]_vars

(***************************************************************************)
(* Properties of the key-event channel.                                    *)
(***************************************************************************)
\* The events BrowserInput.tick reads out of the returned strings.
Popped == [i \in 1 .. Len(returned) |-> TickEvent(returned[i])]

\* C1: FIFO order.  In every interleaving of the producer's and the
\* consumer's steps, the events read from the strings fetchKeyEvent has
\* returned are a prefix of the successfully pushed events, in push order,
\* each with its code and its pressed flag intact.
C1_FifoOrder ==
    /\ Len(returned) <= Len(pushed)
    /\ Popped = SubSeq(pushed, 1, Len(returned))

\* Two different events have been popped, in the order they were pushed.
C1_Witness ==
    /\ Len(returned) >= 2
    /\ returned[1] # returned[2]

\* C2: capacity bound.  A push that finds the channel full returns false in
\* the same step (it does not block), writes nothing to the storage or the
\* indices, leaves the queued records as they were and shows nothing to the
\* user; a push is rejected only when the channel is full; and every pop
\* returns the oldest queued record unchanged.
C2_CapacityBound ==
    /\ [][rejected' # rejected =>
            /\ AvailableWrite(readPtr, writePtr) < RecordBytes
            /\ pushResult' = "false"
            /\ prodPc' = "idle"
            /\ storage' = storage
            /\ writePtr' = writePtr
            /\ readPtr' = readPtr
            /\ Queue' = Queue
            /\ UNCHANGED uiVars]_vars
    /\ [][(keyEvents' # keyEvents
             /\ AvailableWrite(readPtr, writePtr) < RecordBytes)
            => rejected' = rejected + 1]_vars
    /\ [][returned' # returned =>
            /\ Queue # <<>>
            /\ returned' = Append(returned, fetchResult')
            /\ TickEvent(fetchResult') = Head(Queue)
            /\ Queue' = Tail(Queue)]_vars
    /\ [](Len(Queue) <= ChannelRecords)

\* The channel was filled, a push was rejected, and the queued records
\* were all popped afterwards.
C2_Witness ==
    /\ rejected >= 1
    /\ Len(pushed) = ChannelRecords
    /\ Len(returned) = ChannelRecords

\* C3: no duplication, no loss.  With the page as the only pusher and the
\* worker as the only popper, the successfully pushed events are exactly
\* the popped events followed by the queued ones: each is returned by one
\* pop or is still waiting for its one pop.
C3_ExactlyOnce == pushed = Popped \o Queue

\* A pop and a push are both under way, after an earlier pop.
C3_Witness ==
    /\ consPc = "read"
    /\ prodPc = "write1"
    /\ Len(returned) >= 1


(***************************************************************************)
(* NESAudio: segments reaching the playAudio callback against the clock.   *)
(***************************************************************************)
InitAudio == ChannelInit /\ UiInit /\ AudioInit /\ SessionPlayed

NextAudio ==
    \/ AudioCheckboxClick
    \/ ClockAdvance
    \/ \E n \in 1 .. MaxSamples : PlayAudio(n)

SpecAudio == InitAudio /\ [][NextAudio]_vars

(***************************************************************************)
(* Properties of NESAudio.push.                                            *)
(***************************************************************************)
\* Every push so far carried d samples and came Duration(d) after the one
\* before it on the audio clock.
Cadence(d) ==
    \A k \in 1 .. Len(segments) :
        /\ segments[k].length = d
        /\ k > 1 => segments[k].time = segments[k - 1].time + Duration(d)

\* Each start time is exactly Duration(d) after the one before it.
StartsAdvanceBy(d) ==
    \A k \in 2 .. Len(segments) :
        segments[k].start = segments[k - 1].start + Duration(d)

\* C4 as stated: under a steady cadence the start times advance by exactly
\* d and the underrun branch is never taken.
C4_NoUnderrunAsStated ==
    \A d \in 1 .. MaxSamples :
        Cadence(d) =>
            /\ StartsAdvanceBy(d)
            /\ \A k \in 1 .. Len(segments) : ~segments[k].warned

\* C4, amended: under a steady cadence (segments of one length d, one
\* every Duration(d) of the audio clock) the start times advance by exactly
\* Duration(d) with no drift, and every one of these pushes takes the
\* underrun branch and starts its segment at the clock value it read: the
\* first finds scheduledTime = 0 <= currentTime, each later one finds
\* currentTime = scheduledTime.
C4_SteadyCadence ==
    \A d \in 1 .. MaxSamples :
        Cadence(d) =>
            /\ StartsAdvanceBy(d)
            /\ \A k \in 1 .. Len(segments) :
                   /\ segments[k].warned
                   /\ segments[k].start = segments[k].time

\* Three segments of two samples each, pushed two clock units apart.
C4_Witness ==
    /\ Len(segments) >= 3
    /\ Cadence(2)

\* C5: underrun recovery.  Each push finds the scheduledTime the push
\* before it left.  A push that reads currentTime >= scheduledTime starts
\* its segment at currentTime, sets scheduledTime to currentTime + duration
\* and warns; a push that reads currentTime < scheduledTime starts its
\* segment at scheduledTime, adds its duration to scheduledTime and does not
\* warn, so that its segment begins where the segment before it ends.
C5_UnderrunRecovery ==
    /\ \A k \in 1 .. Len(segments) :
          LET s == segments[k]
          IN /\ s.before = IF k = 1 THEN 0 ELSE segments[k - 1].after
             /\ s.time >= s.before =>
                    /\ s.start = s.time
                    /\ s.after = s.time + Duration(s.length)
                    /\ s.warned
             /\ s.time < s.before =>
                    /\ s.start = s.before
                    /\ s.after = s.before + Duration(s.length)
                    /\ ~s.warned
                    /\ s.start = segments[k - 1].start
                                    + Duration(segments[k - 1].length)
    /\ segments # <<>> => scheduledTime = segments[Len(segments)].after

\* A push arrived after the scheduled time had passed (not the first push
\* of the NESAudio), and the push after it was scheduled back-to-back.
C5_Witness ==
    \E k \in 2 .. Len(segments) - 1 :
        /\ segments[k].warned
        /\ segments[k].time > segments[k].before
        /\ ~segments[k + 1].warned
        /\ segments[k + 1].start = segments[k].time + Duration(segments[k].length)


(***************************************************************************)
(* A session: bootstrap, init, the run and the relays.                     *)
(***************************************************************************)
\* The audio clock within a session.
SessionClockAdvance ==
    /\ now < MaxSessionClock
    /\ ClockAdvance

InitSession == ChannelInit /\ UiInit /\ AudioInit /\ SessionInit

NextSession ==
    \/ BootNoServiceWorker
    \/ BootRegister
    \/ RegisterRejected
    \/ RegisteredReload
    \/ \E url \in Urls : RegisteredPlay(url)
    \/ RegisteredNoSab
    \/ \E o \in PortOptions : PortInit(o)
    \/ InitStart
    \/ FetchSettled
    \/ ArrayBufferSettled
    \/ InstantiateSettled
    \/ SetInstanceSettled
    \/ WasiInitialize
    \/ RequireOptcarrot
    \/ NesNew
    \/ TickVideo
    \/ \E n \in 1 .. MaxSamples : TickAudio(n)
    \/ TickInput
    \/ RunThrows
    \/ RunReturns
    \/ DeliverVideo
    \/ DeliverAudio
    \/ DeliverProgress
    \/ SessionClockAdvance

SpecSession == InitSession /\ [][NextSession]_vars

(***************************************************************************)
(* Properties of the startup and of the relays.                            *)
(***************************************************************************)
DoneSent == \E i \in DOMAIN events : events[i].kind = "done"
ErrorCount == Cardinality({i \in DOMAIN events : events[i].kind = "error"})
LastEvent == events[Len(events)]
\* App.init ended by an exception or a rejection before it sent done.
StartupFailed == initPc = "failed" /\ ~DoneSent

\* What App.init sends when every step succeeds.
StartupEvents ==
    <<MessageEv("Downloading..."), ProgressEv(0), ProgressEv(2),
      MessageEv("Instantiating Optcarrot..."), ProgressEv(3), ProgressEv(6),
      ProgressEv(8), ProgressEv(10), DoneEv>>

\* C6 as stated: a successful startup sends exactly downloading,
\* progress(0), then strictly increasing progress values up to 1, then
\* done, and nothing after; a failing startup ends in exactly one error.
C6_OrderAsStated ==
    /\ DoneSent =>
          LET k == CHOOSE i \in DOMAIN events : events[i].kind = "done"
          IN /\ events[1] = MessageEv("Downloading...")
             /\ events[2] = ProgressEv(0)
             /\ \A i \in 3 .. k - 1 :
                    /\ events[i].kind = "progress"
                    /\ events[i].value > events[i - 1].value
             /\ events[k - 1] = ProgressEv(10)
             /\ k = Len(events)
    /\ StartupFailed =>
          /\ LastEvent.kind = "error"
          /\ ErrorCount = 1

\* C6, amended: for a startup in which every step succeeds, the events up
\* to done are exactly message "Downloading...", progress 0, progress 0.2,
\* message "Instantiating Optcarrot...", progress 0.3, 0.6, 0.8, 1, done:
\* the progress values strictly increase from 0 to 1, with the second
\* message among them, and App.init sends nothing after done.  Before done
\* the events sent are a prefix of that sequence, followed by one error
\* event, the last event, when a step of the startup fails.
C6_ProgressOrder ==
    /\ DoneSent =>
          /\ Len(events) >= Len(StartupEvents)
          /\ SubSeq(events, 1, Len(StartupEvents)) = StartupEvents
          /\ \A i \in Len(StartupEvents) + 1 .. Len(events) :
                 events[i].by # "App.init"
    /\ \A i, j \in DOMAIN events :
          (i < j /\ events[i].kind = "progress" /\ events[j].kind = "progress")
              => events[i].value < events[j].value
    /\ (~DoneSent /\ initPc # "failed") =>
          /\ Len(events) < Len(StartupEvents)
          /\ events = SubSeq(StartupEvents, 1, Len(events))
    /\ StartupFailed =>
          /\ LastEvent.kind = "error"
          /\ ErrorCount = 1
          /\ Len(events) - 1 < Len(StartupEvents)
          /\ SubSeq(events, 1, Len(events) - 1)
                 = SubSeq(StartupEvents, 1, Len(events) - 1)

\* A startup succeeded and the page has handled every event up to done.
C6_Witness ==
    /\ initPc = "run"
    /\ events = StartupEvents
    /\ progressPort = <<>>
    /\ uiMessageHidden

\* C7: at most one done or error event is sent in a session, and no
\* event follows a done or an error.
C7_TerminalUnique ==
    /\ Cardinality({i \in DOMAIN events : events[i].kind \in {"done", "error"}}) <= 1
    /\ \A i \in DOMAIN events :
          events[i].kind \in {"done", "error"} => i = Len(events)

\* C8: startup failure.  When a step of App.init throws or rejects before
\* done, exactly one error event is sent, it is the last event and carries
\* the message; no buffer has been relayed and fetchKeyEvent has not been
\* called; and from then on App.init stays ended, no event is sent, and no
\* tickVideo, tickAudio or fetchKeyEvent occurs.
C8_StartupFailure ==
    /\ [](StartupFailed =>
            /\ ErrorCount = 1
            /\ LastEvent.kind = "error"
            /\ LastEvent.text = "Failed to initialize Optcarrot: "
            /\ LastEvent.cause # ""
            /\ owner = <<>>
            /\ videoPort = <<>> /\ audioPort = <<>>
            /\ rendered = <<>> /\ played = <<>>
            /\ inputPolls = 0)
    /\ [][StartupFailed =>
            /\ StartupFailed'
            /\ events' = events
            /\ owner' = owner
            /\ inputPolls' = inputPolls]_vars
    /\ [][(initPc \notin {"run", "failed"} /\ initPc' = "failed") =>
            events' = Append(events, LastEvent')]_vars

\* The instantiation was rejected and the page shows the error.
C8_Witness ==
    /\ StartupFailed
    /\ LastEvent.cause = "WebAssembly.instantiate"
    /\ uiMessage = <<"Failed to initialize Optcarrot: ", "WebAssembly.instantiate">>
    /\ uiProgressHidden

\* C9: on every bootstrap path on which the session cannot be started
\* (no service worker support, registration rejected, SharedArrayBuffer
\* undefined) LoadProgress.error has shown an error and play() was not
\* called; play() is called only when SharedArrayBuffer is defined.
C9_UnsupportedEnvironment ==
    /\ boot \in {"noServiceWorker", "registerRejected", "noSharedArrayBuffer"} =>
          /\ uiMessage # <<>>
          /\ uiProgressHidden
          /\ initPc = "idle"
    /\ boot = "played" => env.sab = "yes"

\* C10: relay ownership transfer without blocking.  After every step of
\* the run the compute context owns none of the buffers it has read: each
\* is either in flight to the page or owned by the page, and each was
\* handed over once.  While the run goes on, tickVideo and tickAudio can
\* take their next step whatever the number of relays not yet consumed.
C10_RelayTransfer ==
    /\ \A b \in DOMAIN owner : owner[b] # "compute"
    /\ LET inFlight == {videoPort[i] : i \in DOMAIN videoPort}
                         \cup {audioPort[i].buffer : i \in DOMAIN audioPort}
           delivered == {rendered[i] : i \in DOMAIN rendered}
                          \cup {played[i] : i \in DOMAIN played}
       IN /\ \A b \in DOMAIN owner :
                /\ owner[b] = "transit" <=> b \in inFlight
                /\ owner[b] = "presentation" <=> b \in delivered
          /\ Len(videoPort) + Len(audioPort) + Len(rendered) + Len(played)
                 = Len(owner)
    /\ (initPc = "run" /\ Len(owner) < MaxBuffers) =>
          /\ ENABLED TickVideo
          /\ ENABLED TickAudio(1)

\* Three buffers were relayed, and the page has consumed none of them.
C10_Witness ==
    /\ initPc = "run"
    /\ Len(owner) >= 3
    /\ Len(videoPort) >= 1
    /\ Len(audioPort) >= 1
    /\ rendered = <<>>
    /\ played = <<>>

\* Buffers are numbered in the order the tick methods read them.
IsIncreasing(s) == \A i, j \in DOMAIN s : i < j => s[i] < s[j]
AudioPortBuffers == [i \in DOMAIN audioPort |-> audioPort[i].buffer]

\* C11: per-stream relay order.  The frames render has received, followed
\* by the frames in flight, are in the order tickVideo produced them; the
\* segments playAudio has received, followed by the segments in flight,
\* are in the order tickAudio produced them; and the segments started
\* have non-decreasing start times in that order.
C11_PerStreamOrder ==
    /\ IsIncreasing(rendered \o videoPort)
    /\ IsIncreasing(played \o AudioPortBuffers)
    /\ \A i, j \in DOMAIN segments :
          i < j => segments[i].start <= segments[j].start

\* Two segments produced after a frame were started while that frame is
\* still in flight: the two streams are not ordered with each other.
C11_Witness ==
    /\ Len(segments) = 2
    /\ Len(played) = 2
    /\ videoPort # <<>>
    /\ Head(videoPort) < played[1]

\* C12: startup parameters are defaulted independently and reach the
\* engine.  deriveOptions gives each absent parameter its own default and
\* derives each value from its own parameter only; the value play() passes
\* to init is the one deriveOptions returned; and a startup begun by play()
\* is not failed by the options themselves.
C12_StartupParameters ==
    /\ \A u \in Urls :
          /\ u.opt = <<>> => deriveOptions(u).opt = TRUE
          /\ u.headless = <<>> => deriveOptions(u).headless = FALSE
          /\ u.rom = <<>> => deriveOptions(u).rom = "Lan_Master.nes"
    /\ \A u, v \in Urls :
          /\ u.opt = v.opt => deriveOptions(u).opt = deriveOptions(v).opt
          /\ u.headless = v.headless =>
                deriveOptions(u).headless = deriveOptions(v).headless
          /\ u.rom = v.rom => deriveOptions(u).rom = deriveOptions(v).rom
    /\ boot = "played" => options \in {deriveOptions(u) : u \in Urls}
    /\ (boot = "played" /\ initPc = "failed") =>
          LastEvent.cause # "options.map is not a function"

\* A step of a BrowserInput.tick that finds the channel empty.
EmptyTick ==
    /\ keyEventConsumer = "attached"
    /\ consPc = "idle"
    /\ AvailableRead(readPtr, writePtr) < RecordBytes
    /\ prodPc' = prodPc
    /\ keyEvents' = keyEvents
    /\ lastKey' = lastKey
    /\ initPc' = initPc

\* C13: the input consumer polls at most one event per tick.  Every step
\* of a tick moves the read index by at most one record and makes at most
\* one call on pads; the calls made are, in order, keydown(0, code) for
\* each popped event that was pressed and keyup(0, code) for each that was
\* released, for player 0 only; and a tick on an empty channel returns ""
\* and changes neither the channel nor the pads.
C13_OnePollPerTick ==
    /\ [](/\ Len(padCalls) = Len(returned)
          /\ Len(padCalls) <= Len(pushed)
          /\ \A i \in DOMAIN padCalls :
                padCalls[i] = <<IF pushed[i][2] THEN "keydown" ELSE "keyup",
                                0, pushed[i][1]>>)
    /\ [][/\ readPtr' \in {readPtr, (readPtr + RecordBytes) % StorageLen}
          /\ Len(padCalls') <= Len(padCalls) + 1
          /\ Len(returned') <= Len(returned) + 1]_vars
    /\ [][EmptyTick =>
            /\ fetchResult' = <<>>
            /\ UNCHANGED <<storage, readPtr, writePtr, padCalls, returned>>]_vars

\* A key was pressed and released, both events were applied, and a later
\* tick found the channel empty.
C13_Witness ==
    /\ \E i, j \in DOMAIN padCalls :
          padCalls[i][1] = "keydown" /\ padCalls[j][1] = "keyup"
    /\ consPc = "idle"
    /\ Queue = <<>>
    /\ fetchResult = <<>>

\* The KeyboardEvent.code values of the cases of padCodeFromCode.
MappedKeys ==
    {"KeyZ", "KeyX", "Enter", "Space",
     "ArrowUp", "ArrowDown", "ArrowLeft", "ArrowRight"}

\* C14: the input producer.  padCodeFromCode gives each mapped key its own
\* code in 0..7 and any other key none.  Every keydown or keyup of a
\* mapped key makes exactly one push, of the key's code with pressed true
\* for a keydown and false for a keyup, which the channel either takes or
\* rejects; a keydown or keyup of any other key makes no push and changes
\* no channel state.
C14_InputProducer ==
    /\ [](/\ \A k \in MappedKeys :
                /\ Len(padCodeFromCode(k)) = 1
                /\ padCodeFromCode(k)[1] \in 0 .. 7
          /\ \A k1, k2 \in MappedKeys :
                k1 # k2 => padCodeFromCode(k1) # padCodeFromCode(k2)
          /\ \A k \in Keys \ MappedKeys : padCodeFromCode(k) = <<>>)
    /\ [](keyEvents = Len(pushed) + rejected + (IF prodPc = "idle" THEN 0 ELSE 1))
    /\ [][(lastKey' # lastKey \/ keyEvents' # keyEvents) =>
            IF lastKey'[1] \in MappedKeys
            THEN /\ keyEvents' = keyEvents + 1
                 /\ \/ /\ prodPc' = "write0"
                       /\ prodEvent' = <<padCodeFromCode(lastKey'[1])[1], lastKey'[2]>>
                       /\ rejected' = rejected
                    \/ /\ prodPc' = "idle"
                       /\ rejected' = rejected + 1
                       /\ pushResult' = "false"
                 /\ UNCHANGED <<storage, readPtr, writePtr, pushed>>
            ELSE UNCHANGED <<storage, readPtr, writePtr, prodPc, prodEvent,
                             pushResult, pushed, rejected, keyEvents>>]_vars

\* A press and a release were pushed and committed, and the last key event
\* was for a key that is not mapped.
C14_Witness ==
    /\ lastKey # <<>>
    /\ lastKey[1] \notin MappedKeys
    /\ \E i, j \in DOMAIN pushed : pushed[i][2] /\ ~pushed[j][2]
    /\ prodPc = "idle"

\* C15: PlaybackClock discipline.  scheduledTime changes only in a step in
\* which NESAudio.push runs; a push on the steady branch (currentTime <
\* scheduledTime) adds the segment's duration to it, so it does not
\* decrease; and a push that sets it to anything other than its old value
\* plus the duration is on the underrun branch, which assigns currentTime
\* plus the duration.
C15_ClockDiscipline ==
    /\ [][scheduledTime' # scheduledTime =>
            /\ Len(segments') = Len(segments) + 1
            /\ scheduledTime' = segments'[Len(segments')].after]_vars
    /\ [](\A k \in DOMAIN segments :
            LET s == segments[k]
            IN /\ s.time < s.before =>
                    /\ ~s.warned
                    /\ s.after = s.before + Duration(s.length)
                    /\ s.after >= s.before
               /\ s.after # s.before + Duration(s.length) =>
                    /\ s.warned
                    /\ s.time >= s.before
                    /\ s.after = s.time + Duration(s.length))

\* A push on the steady branch moved scheduledTime forward, and a later
\* push, arriving after the scheduled time had passed, reset it.
C15_Witness ==
    \E j, k \in DOMAIN segments :
        /\ j < k
        /\ ~segments[j].warned
        /\ segments[j].after > segments[j].before
        /\ segments[k].warned
        /\ segments[k].after # segments[k].before + Duration(segments[k].length)

(***************************************************************************)
(* The startup alone: bootstrap, init and the progress callback, up to the *)
(* entry of $nes.run.  Things that can happen do happen: the init message  *)
(* reaches the worker, each awaited promise settles (fulfilled or          *)
(* rejected), and the synchronous stretches of App.init run on.            *)
(***************************************************************************)
NextStartup ==
    \/ BootNoServiceWorker
    \/ BootRegister
    \/ RegisterRejected
    \/ RegisteredReload
    \/ \E url \in Urls : RegisteredPlay(url)
    \/ RegisteredNoSab
    \/ \E o \in PortOptions : PortInit(o)
    \/ InitStart
    \/ FetchSettled
    \/ ArrayBufferSettled
    \/ InstantiateSettled
    \/ SetInstanceSettled
    \/ WasiInitialize
    \/ RequireOptcarrot
    \/ NesNew
    \/ DeliverProgress

SpecStartupLive ==
    /\ InitSession
    /\ [][NextStartup]_vars
    /\ WF_vars(InitStart)
    /\ WF_vars(FetchSettled)
    /\ WF_vars(ArrayBufferSettled)
    /\ WF_vars(InstantiateSettled)
    /\ WF_vars(SetInstanceSettled)
    /\ WF_vars(WasiInitialize)
    /\ WF_vars(RequireOptcarrot)
    /\ WF_vars(NesNew)

\* C16: startup reaches a terminal state.  Once init is called, a done or
\* an error event is eventually sent; done is sent in the step that enters
\* $nes.run, and only when no step failed; a startup that ended on a
\* failing step has sent an error.
C16_StartupTerminates ==
    /\ (initPc = "called") ~> (DoneSent \/ ErrorCount >= 1)
    /\ [][(~DoneSent /\ DoneSent') =>
            /\ initPc' = "run"
            /\ ErrorCount' = 0
            /\ events' = StartupEvents]_vars
    /\ [](initPc \in {"run", "returned"} => DoneSent)
    /\ [](initPc = "failed" => ErrorCount >= 1)

\* Every step succeeded, $nes.run is entered, and the page has shown
\* progress 1 while done is still on its way.
C16_Witness ==
    /\ initPc = "run"
    /\ DoneSent
    /\ ErrorCount = 0
    /\ uiValue = 10
    /\ progressPort = <<DoneEv>>

\* C17: no relay and no input poll before the startup completes.  In every
\* state in which tickVideo, tickAudio or fetchKeyEvent has been called,
\* progress 1 and then done have been sent; and every step in which one of
\* them is called starts in a state in which done was already sent and
\* $nes.run is running.
C17_NoTickBeforeDone ==
    /\ []((owner # <<>> \/ inputPolls > 0 \/ consPc # "idle") =>
            \E i, j \in DOMAIN events :
                /\ i < j
                /\ events[i] = ProgressEv(10)
                /\ events[j] = DoneEv)
    /\ [][(Len(owner') > Len(owner) \/ inputPolls' > inputPolls) =>
            /\ DoneSent
            /\ initPc = "run"]_vars

\* Frames, a segment and an input poll have happened while the done event
\* has not yet reached the page.
C17_Witness ==
    /\ inputPolls > 0
    /\ videoPort # <<>>
    /\ audioPort # <<>>
    /\ \E i \in DOMAIN progressPort : progressPort[i] = DoneEv

\* C18: audio gating leaves the scheduler untouched.  A segment relayed
\* while the flag is false is dropped: no segment is started, no NESAudio
\* is made and scheduledTime keeps its value; a segment is started only
\* while the flag is true; and at most one NESAudio is ever constructed,
\* by the first segment relayed while the flag is true.
C18_AudioGating ==
    /\ [](/\ contexts <= 1
          /\ contexts = 1 <=> nesAudio = "created"
          /\ contexts = 1 <=> segments # <<>>)
    /\ [][(~audioEnabled /\ audioEnabled' = audioEnabled /\ now' = now) =>
            /\ dropped' = dropped + 1
            /\ UNCHANGED <<nesAudio, scheduledTime, segments, contexts>>]_vars
    /\ [][dropped' # dropped => ~audioEnabled]_vars
    /\ [][segments' # segments =>
            /\ audioEnabled
            /\ dropped' = dropped
            /\ contexts' = IF segments = <<>> THEN 1 ELSE contexts]_vars

\* Segments were dropped and segments were started, the flag having been
\* toggled in between; the flag is false again.
C18_Witness ==
    /\ dropped >= 2
    /\ Len(segments) >= 2
    /\ contexts = 1
    /\ ~audioEnabled

\* C19: scheduled segments never overlap and the clock stays ahead.  Each
\* segment starts at or after the start of the segment before it plus that
\* segment's duration, on either branch, and each push leaves
\* scheduledTime at or after the clock value it read plus the duration of
\* its segment.
C19_NoOverlap ==
    /\ \A k \in 2 .. Len(segments) :
          segments[k].start >=
              segments[k - 1].start + Duration(segments[k - 1].length)
    /\ \A k \in DOMAIN segments :
          segments[k].after >= segments[k].time + Duration(segments[k].length)
    /\ segments # <<>> =>
          scheduledTime >= segments[Len(segments)].time
                             + Duration(segments[Len(segments)].length)

\* Three segments, one queued behind the one before it with scheduledTime
\* strictly ahead of the clock, and one started after a silent gap.
C19_Witness ==
    /\ Len(segments) >= 3
    /\ \E k \in 2 .. Len(segments) :
          /\ ~segments[k].warned
          /\ segments[k].after > segments[k].time + Duration(segments[k].length)
    /\ \E k \in 2 .. Len(segments) :
          /\ segments[k].warned
          /\ segments[k].start >
                 segments[k - 1].start + Duration(segments[k - 1].length)

=============================================================================
